---- MODULE Spec2Model ----
(***************************************************************************)
(* State-machine model of the embedding service:                           *)
(*   app/services/model_manager.py      ModelManager (bounded model cache) *)
(*   app/services/embedding_service.py  EmbeddingService (name mapping,    *)
(*                                      fallback, truncation, chunking)    *)
(*   app/routes/embeddings.py           /embeddings/generate, /batch       *)
(*   app/routes/health.py               /health/, /health/ready            *)
(*                                                                         *)
(* Python strings are sequences of one-character strings, so that lower(), *)
(* substring tests and slicing are computed, not assumed.                  *)
(*                                                                         *)
(* Spec         the HTTP routes, with concurrent requests                  *)
(* SpecService  EmbeddingService called directly: lists of texts, chunking *)
(* SpecCache    ModelManager called directly: get_model, unload_model      *)
(* SpecDevice   ModelManager under either configured device                *)
(* SpecDeploy   the routes under either environment and device             *)
(* SpecResolve  _map_model_name over names in varied letter case           *)
(***************************************************************************)
EXTENDS Integers, Sequences, FiniteSets, TLC

\* ------------------------------------------------------------------ bounds
\* largest configured cache capacity explored (settings.MODEL_CACHE_SIZE)
MaxK == 1
\* SentenceTransformer(...) constructions explored in one behaviour
MaxLoads == 2
\* HTTP requests that can be open at the same time
NReq == 2
\* largest capacity and number of constructions explored when the cache is
\* driven directly (get_model / unload_model calls)
CacheK == 2
CacheLoads == 3
\* longest list of texts explored in a batch call
MaxTexts == 3
\* settings.MAX_TEXT_LENGTH and settings.BATCH_SIZE, scaled down
MAX_TEXT_LENGTH == 2
BATCH_SIZE == 2
\* the request schema's hard text limit (max_length), scaled down
max_length == 4

\* ----------------------------------------------------------------- strings
LowerChar(c) ==
  CASE c = "A" -> "a" [] c = "B" -> "b" [] c = "C" -> "c" [] c = "D" -> "d"
    [] c = "E" -> "e" [] c = "F" -> "f" [] c = "G" -> "g" [] c = "H" -> "h"
    [] c = "I" -> "i" [] c = "J" -> "j" [] c = "K" -> "k" [] c = "L" -> "l"
    [] c = "M" -> "m" [] c = "N" -> "n" [] c = "O" -> "o" [] c = "P" -> "p"
    [] c = "Q" -> "q" [] c = "R" -> "r" [] c = "S" -> "s" [] c = "T" -> "t"
    [] c = "U" -> "u" [] c = "V" -> "v" [] c = "W" -> "w" [] c = "X" -> "x"
    [] c = "Y" -> "y" [] c = "Z" -> "z" [] OTHER -> c

\* mutant: the name is looked up as given, without lowering it
LowerNone(s) == s

\* str.lower()
Lower(s) == [i \in 1..Len(s) |-> LowerChar(s[i])]

UpperChar(c) ==
  CASE c = "a" -> "A" [] c = "b" -> "B" [] c = "c" -> "C" [] c = "d" -> "D"
    [] c = "e" -> "E" [] c = "f" -> "F" [] c = "g" -> "G" [] c = "h" -> "H"
    [] c = "i" -> "I" [] c = "j" -> "J" [] c = "k" -> "K" [] c = "l" -> "L"
    [] c = "m" -> "M" [] c = "n" -> "N" [] c = "o" -> "O" [] c = "p" -> "P"
    [] c = "q" -> "Q" [] c = "r" -> "R" [] c = "s" -> "S" [] c = "t" -> "T"
    [] c = "u" -> "U" [] c = "v" -> "V" [] c = "w" -> "W" [] c = "x" -> "X"
    [] c = "y" -> "Y" [] c = "z" -> "Z" [] OTHER -> c

\* str.upper()
Upper(s) == [i \in 1..Len(s) |-> UpperChar(s[i])]

\* s with the letters at the positions P in upper case
UpperAt(s, P) ==
  [i \in 1..Len(s) |-> IF i \in P THEN UpperChar(s[i]) ELSE s[i]]

\* pattern in s
Contains(s, p) ==
  \E i \in 0..(Len(s) - Len(p)) : SubSeq(s, i + 1, i + Len(p)) = p

\* s[:n]
Prefix(s, n) == SubSeq(s, 1, IF n < Len(s) THEN n ELSE Len(s))

\* ------------------------------------------------------------ model names
\* settings.EMBEDDING_MODEL = "all-MiniLM-L6-v2"
EMBEDDING_MODEL ==
  <<"a","l","l","-","M","i","n","i","L","M","-","L","6","-","v","2">>

AllMpnetBaseV2 ==
  <<"a","l","l","-","m","p","n","e","t","-","b","a","s","e","-","v","2">>

TextEmbedding3Small ==
  <<"t","e","x","t","-","e","m","b","e","d","d","i","n","g","-","3","-",
    "s","m","a","l","l">>

TextEmbedding3Large ==
  <<"t","e","x","t","-","e","m","b","e","d","d","i","n","g","-","3","-",
    "l","a","r","g","e">>

TextEmbeddingAda002 ==
  <<"t","e","x","t","-","e","m","b","e","d","d","i","n","g","-","a","d","a",
    "-","0","0","2">>

TextEmbedding ==
  <<"t","e","x","t","-","e","m","b","e","d","d","i","n","g">>

\* a model name that is in no table and matches no pattern
LaBSE == <<"L","a","B","S","E">>

\* EmbeddingService.model_name_map
model_name_map ==
  { <<TextEmbedding3Small, EMBEDDING_MODEL>>,
    <<TextEmbedding3Large, AllMpnetBaseV2>>,
    <<TextEmbeddingAda002, EMBEDDING_MODEL>>,
    <<TextEmbedding, EMBEDDING_MODEL>> }

\* the patterns of _map_model_name
CanonicalPatterns ==
  { <<"a","l","l","-","m","i","n","i","l","m">>,
    <<"a","l","l","-","m","p","n","e","t">>,
    <<"p","a","r","a","p","h","r","a","s","e">>,
    <<"s","e","n","t","e","n","c","e","-","t","r","a","n","s","f","o","r",
      "m","e","r","s">> }

\* mutant: a key that is not in the table maps to the default model
MapGetDefault(key) ==
  IF \E e \in model_name_map : e[1] = key
  THEN (CHOOSE e \in model_name_map : e[1] = key)[2]
  ELSE EMBEDDING_MODEL

\* dict.get(key): the mapped value, or <<>> for None
MapGet(key) ==
  IF \E e \in model_name_map : e[1] = key
  THEN (CHOOSE e \in model_name_map : e[1] = key)[2]
  ELSE << >>

\* mutant: a name that matches a pattern is returned in lower case
MapModelNameLowered(model_name) ==
  IF model_name = << >> THEN EMBEDDING_MODEL
  ELSE IF \E p \in CanonicalPatterns : Contains(Lower(model_name), p)
  THEN Lower(model_name)
  ELSE IF MapGet(Lower(model_name)) # << >> THEN MapGet(Lower(model_name))
  ELSE model_name

\* EmbeddingService._map_model_name; None and "" are both the empty sequence
MapModelName(model_name) ==
  IF model_name = << >> THEN EMBEDDING_MODEL
  ELSE IF \E p \in CanonicalPatterns : Contains(Lower(model_name), p)
  THEN model_name
  ELSE IF MapGet(Lower(model_name)) # << >> THEN MapGet(Lower(model_name))
  ELSE model_name

\* the number of "self.model_name_map.get" calls _map_model_name makes: the
\* lookup is reached only after the two early returns
MapLookups(model_name) ==
  IF model_name = << >> THEN 0
  ELSE IF \E p \in CanonicalPatterns : Contains(Lower(model_name), p)
  THEN 0
  ELSE 1

\* values the model provider reports for a loaded model
\* (EmbeddingService.model_dimensions for the names it lists)
Dimensions(name) ==
  IF name = EMBEDDING_MODEL THEN 384 ELSE 768

MaxSeqLength(name) ==
  IF name = AllMpnetBaseV2 THEN 384 ELSE 256

\* -------------------------------------------------------------------- state
VARIABLES
  models,          \* ModelManager.models: ordered dict, a sequence of entries
  model_info,      \* ModelManager.model_info: one record per key
  device,          \* ModelManager.device
  max_cache_size,  \* ModelManager.max_cache_size = settings.MODEL_CACHE_SIZE
  DEVICE,          \* settings.DEVICE
  batch_size,      \* EmbeddingService.batch_size = settings.BATCH_SIZE
  ENVIRONMENT,     \* the ENVIRONMENT variable of the process
  sys_modules,     \* the import of sentence_transformers (and with it torch):
                   \* "unset" before the first attempt, then its outcome
  loads,           \* SentenceTransformer objects constructed so far
  loop,            \* the request whose handler holds the event loop, 0 if none
  req,             \* per request: position in its handler and its locals
  returned,        \* history: handles get_model returned, dropped when their
                   \* name is evicted or unloaded
  clean,           \* history: every cache change so far was a successful load
  history,         \* history: names of the successful loads while clean
  last_hit,        \* history: the last direct get_model call answered from
                   \* the cache, and how many loads had been made by then
  last_unload      \* history: the name removed by the last direct call, if
                   \* that call was an unload_model that found it

vars == << models, model_info, device, max_cache_size, DEVICE, batch_size,
           ENVIRONMENT, sys_modules, loads, loop, req, returned, clean, history,
           last_hit, last_unload >>

Requests == 1..NReq

NoHandle == [name |-> << >>, id |-> 0, device |-> "none"]
NoHit == [name |-> << >>, at |-> 0]
NoInfo == [name |-> << >>, dimensions |-> 0, max_sequence_length |-> 0,
           device |-> "none"]
NoResponse == [status |-> 0, model |-> << >>, embeddings |-> << >>,
               dimensions |-> 0, info |-> NoInfo, device |-> "none",
               detail |-> "none",
               default_model |-> << >>, supported_models |-> << >>,
               loaded_models |-> << >>, model_info |-> << >>]

\* ------------------------------------------------------------ dict helpers
\* list(d.keys())
Keys(d) == [i \in 1..Len(d) |-> d[i].name]

\* k in d
HasKey(d, k) == \E i \in 1..Len(d) : d[i].name = k

\* d[k]
DictGet(d, k) == d[CHOOSE i \in 1..Len(d) : d[i].name = k].handle

\* d[k] = v: a new key goes last, an existing key keeps its place
DictSet(d, k, v) ==
  IF HasKey(d, k)
  THEN [i \in 1..Len(d) |-> IF d[i].name = k THEN [name |-> k, handle |-> v]
                                             ELSE d[i]]
  ELSE Append(d, [name |-> k, handle |-> v])

\* del d[k]
DictDel(d, k) == SelectSeq(d, LAMBDA e : e.name # k)

InfoHas(mi, k) == \E e \in mi : e.name = k
InfoGet(mi, k) == IF InfoHas(mi, k) THEN CHOOSE e \in mi : e.name = k ELSE NoInfo
InfoSet(mi, e) == {x \in mi : x.name # e.name} \cup {e}
InfoDel(mi, k) == {x \in mi : x.name # k}

\* mutant: the newest entry is removed instead of the oldest
CleanupModelsNewest(ms) ==
  IF Len(ms) > 0 THEN SubSeq(ms, 1, Len(ms) - 1) ELSE ms

\* ModelManager._cleanup_cache, on self.models
CleanupModels(ms) == IF Len(ms) > 0 THEN Tail(ms) ELSE ms

\* ModelManager._cleanup_cache, on self.model_info
CleanupInfo(ms, mi) == IF Len(ms) > 0 THEN InfoDel(mi, ms[1].name) ELSE mi

\* ModelManager.get_model_info
GetModelInfo(name) ==
  InfoGet(model_info, IF name = << >> THEN EMBEDDING_MODEL ELSE name)

\* ModelManager.list_loaded_models
ListLoadedModels == Keys(models)

\* ------------------------------------------------------------------ inputs
T1 == <<"h">>
T3 == <<"h","e","y">>
T5 == <<"h","e","l","l","o">>

\* the request bodies explored: "model" (absent is << >>), "text", "texts"
RequestedModels == { << >>, TextEmbedding3Large, LaBSE }

\* a text one character over the schema's limit
TooLong == [i \in 1..(max_length + 1) |-> "x"]

TextPool == { << >>, T3, TooLong }

BatchPool == { << >>, <<T3, T1, T1>>, <<T1, TooLong>> }

\* EmbeddingRequest: min_length=1 and validate_text_length
ValidText(t) == Len(t) >= 1 /\ Len(t) <= max_length

\* EmbeddingBatchRequest: min_items=1 and validate_texts
ValidTexts(ts) ==
  Len(ts) >= 1 /\ \A i \in 1..Len(ts) : Len(ts[i]) <= max_length

IdleReq ==
  [ pc |-> "idle", kind |-> "none", direct |-> FALSE,
    model_name |-> << >>, texts |-> << >>,
    mapped_model_name |-> << >>, loading |-> << >>, model |-> NoHandle,
    cuda_available |-> "unchecked", after_unload |-> FALSE,
    exc |-> "none", failed_at |-> "none", calls |-> << >>,
    outcomes |-> << >>, lookups |-> 0,
    before |-> << >>, before_info |-> {}, prev |-> NoHandle, loads0 |-> 0,
    processed_texts |-> << >>, i |-> 0, all_embeddings |-> << >>,
    response |-> NoResponse ]

\* The state after "model_manager = ModelManager()".  MODEL_CACHE_SIZE is
\* whatever integer the environment gives (default 1; 0 is accepted and
\* makes every load evict at once); DEVICE is its default, "cpu".
Init ==
  /\ models = << >>
  /\ model_info = {}
  /\ max_cache_size \in 0..MaxK
  /\ DEVICE = "cpu"
  /\ device = DEVICE
  /\ batch_size = BATCH_SIZE
  /\ ENVIRONMENT = "development"
  /\ sys_modules = "unset"
  /\ loads = 0
  /\ loop = 0
  /\ req = [r \in Requests |-> IdleReq]
  /\ returned = {}
  /\ clean = TRUE
  /\ history = << >>
  /\ last_hit = NoHit
  /\ last_unload = << >>

cfgVars == << max_cache_size, DEVICE, batch_size, ENVIRONMENT >>
cacheVars == << models, model_info, device >>
histVars == << returned, clean, history, last_hit, last_unload >>

\* outcomes of the collaborators (imports, model provider); an import that
\* failed keeps failing in the same way for the life of the process
ImportOutcomes == {"ok", "ImportError", "OSError_DLL"}
ConstructOutcomes == {"ok", "OSError", "ValueError"}
InfoOutcomes == {"ok", "Exception"}
EncodeOutcomes == {"ok", "Exception"}

\* the handle get_model last returned for name and that was not evicted since
PrevReturned(name) ==
  IF \E h \in returned : h.name = name
  THEN CHOOSE h \in returned : h.name = name
  ELSE NoHandle

DropName(hs, name) == {h \in hs : h.name # name}

\* ------------------------------------------------------------- event loop
\* the route handlers are coroutines (async def) without an await in their
\* body: a handler that has started runs to its return before the loop
\* starts another one; a finished handler's response is sent before that
LoopFree == loop = 0 /\ \A q \in Requests : req[q].pc # "done"

\* a connection is accepted (in the lowest free slot); its handler has not
\* started
Arrive(r) ==
  /\ req[r].pc = "idle"
  /\ \A q \in 1..(r - 1) : req[q].pc # "idle"
  /\ req' = [req EXCEPT ![r].pc = "pending"]
  /\ UNCHANGED << cacheVars, cfgVars, histVars, sys_modules, loads, loop >>

\* POST /embeddings/generate: body validation, then the handler starts
DispatchGenerate(r, Ms, Ts) ==
  /\ LoopFree
  /\ req[r].pc = "pending"
  /\ \E m \in Ms, t \in Ts :
       IF ValidText(t)
       THEN /\ req' = [req EXCEPT ![r] =
                  [IdleReq EXCEPT !.pc = "map", !.kind = "generate",
                                  !.model_name = m, !.texts = <<t>>]]
            /\ loop' = r
       ELSE /\ req' = [req EXCEPT ![r] =
                  [IdleReq EXCEPT !.pc = "done", !.kind = "generate",
                     !.failed_at = "validation",
                     !.response = [NoResponse EXCEPT !.status = 422]]]
            /\ loop' = loop
  /\ UNCHANGED << cacheVars, cfgVars, histVars, sys_modules, loads >>

\* POST /embeddings/batch: body validation, then the handler starts
DispatchBatch(r, Ms, Bs) ==
  /\ LoopFree
  /\ req[r].pc = "pending"
  /\ \E m \in Ms, ts \in Bs :
       IF ValidTexts(ts)
       THEN /\ req' = [req EXCEPT ![r] =
                  [IdleReq EXCEPT !.pc = "map", !.kind = "batch",
                                  !.model_name = m, !.texts = ts]]
            /\ loop' = r
       ELSE /\ req' = [req EXCEPT ![r] =
                  [IdleReq EXCEPT !.pc = "done", !.kind = "batch",
                     !.failed_at = "validation",
                     !.response = [NoResponse EXCEPT !.status = 422]]]
            /\ loop' = loop
  /\ UNCHANGED << cacheVars, cfgVars, histVars, sys_modules, loads >>

\* GET /health/ and GET /health/ready: both start with get_model()
DispatchHealth(r) ==
  /\ LoopFree
  /\ req[r].pc = "pending"
  /\ \E k \in {"health", "ready"} :
       req' = [req EXCEPT ![r] = [IdleReq EXCEPT !.pc = "get", !.kind = k]]
  /\ loop' = r
  /\ UNCHANGED << cacheVars, cfgVars, histVars, sys_modules, loads >>

\* the exceptions the handlers of routes/embeddings.py catch: ValueError,
\* OSError and, last, Exception, of which every error raised here is a
\* subclass
RouteCatches ==
  { "ValueError", "OSError", "OSError_DLL", "ImportError", "Exception",
    "KeyError", "NameError" }

\* the error whose text the detail of a handler's HTTPException contains:
\* f"Failed to ...: {str(e)}", or a fixed text ("generic") for the DLL case
RouteDetail(exc) == IF exc = "OSError_DLL" THEN "generic" ELSE exc

\* general_exception_handler, for an exception that leaves a handler: the
\* error's text in development, a fixed text otherwise
GeneralDetail(env, exc) == IF env = "development" THEN exc ELSE "generic"

\* the detail of the response to a failed request
DetailOf(exc) ==
  IF exc \in RouteCatches THEN RouteDetail(exc)
  ELSE GeneralDetail(ENVIRONMENT, exc)

\* the names bound in the namespace of app/routes/embeddings.py: its imports,
\* its router and its three handlers
RouteGlobals ==
  { "APIRouter", "HTTPException", "status", "List", "EmbeddingRequest",
    "EmbeddingResponse", "EmbeddingBatchRequest", "EmbeddingBatchResponse",
    "embedding_service", "logger", "router", "generate_embedding",
    "generate_embeddings_batch", "list_models" }

\* settings.supported_models_list for the default SUPPORTED_MODELS
supported_models_list == << EMBEDDING_MODEL >>

\* the comprehension of list_models: the metadata of each loaded name that
\* has some
ModelInfoList(names) ==
  LET infos == [i \in 1..Len(names) |-> GetModelInfo(names[i])]
  IN SelectSeq(infos, LAMBDA e : e # NoInfo)

\* GET /embeddings/models: the whole handler (it has no await).  The name
\* model_manager is looked up in the module's namespace when line 135 runs;
\* an unbound name raises NameError, which the handler's "except Exception"
\* turns into a 500.
ListModels(r) ==
  /\ LoopFree
  /\ req[r].pc = "pending"
  /\ req' = [req EXCEPT ![r] =
       [IdleReq EXCEPT !.pc = "done", !.kind = "models",
          !.exc = IF "model_manager" \in RouteGlobals THEN "none"
                  ELSE "NameError",
          !.response =
             IF "model_manager" \in RouteGlobals
             THEN [NoResponse EXCEPT
                     !.status = 200,
                     !.default_model = EMBEDDING_MODEL,
                     !.supported_models = supported_models_list,
                     !.loaded_models = ListLoadedModels,
                     !.model_info = ModelInfoList(ListLoadedModels),
                     !.device = DEVICE]
             ELSE [NoResponse EXCEPT !.status = 500,
                                     !.detail = DetailOf("NameError")]]]
  /\ UNCHANGED << cacheVars, cfgVars, histVars, sys_modules, loads, loop >>

\* mutant: the empty list is let through
EmptyBatchAccepted(texts) == FALSE

\* "if not texts" at the top of generate_embeddings_batch
EmptyBatch(texts) == texts = << >>

\* generate_embedding / generate_embeddings_batch up to _map_model_name
MapName(r) ==
  /\ req[r].pc = "map"
  /\ IF req[r].kind = "batch" /\ EmptyBatch(req[r].texts)
     THEN req' = [req EXCEPT ![r].pc = "route", ![r].exc = "ValueError",
                             ![r].failed_at = "validation"]
     ELSE req' = [req EXCEPT ![r].pc = "get",
                    ![r].mapped_model_name = MapModelName(req[r].model_name),
                    ![r].lookups = MapLookups(req[r].model_name)]
  /\ UNCHANGED << cacheVars, cfgVars, histVars, sys_modules, loads, loop >>

\* mutant: get_model never finds the name and always loads
CacheHitNever(name) == FALSE

\* get_model's test "model_name in self.models"
CacheHit(name) == HasKey(models, name)

\* mutant: a hit moves the entry to the end of the dict (a true LRU)
AfterHitMoveToEnd(ms, name) ==
  Append(SelectSeq(ms, LAMBDA e : e.name # name),
         ms[CHOOSE i \in 1..Len(ms) : ms[i].name = name])

\* self.models after the hit branch of get_model, which only reads it
AfterHit(ms, name) == ms

\* ModelManager.get_model: the import, the default name, the cache lookup
GetModel(r) ==
  LET name == IF req[r].mapped_model_name = << >> THEN EMBEDDING_MODEL
              ELSE req[r].mapped_model_name
      entered == [req[r] EXCEPT !.calls = Append(@, name), !.loading = name,
                                !.before = models, !.before_info = model_info,
                                !.prev = PrevReturned(name), !.loads0 = loads]
  IN
  /\ req[r].pc = "get"
  /\ \E o \in (IF sys_modules = "unset" THEN ImportOutcomes
               ELSE {sys_modules}) :
       /\ sys_modules' = o
       /\ IF o # "ok"
          THEN /\ req' = [req EXCEPT ![r] =
                         [entered EXCEPT !.pc = "except", !.exc = o,
                                         !.outcomes = Append(@, "failed")]]
               /\ UNCHANGED returned
          ELSE IF CacheHit(name)
               THEN /\ req' = [req EXCEPT ![r] =
                          [entered EXCEPT !.pc = "got",
                                          !.outcomes = Append(@, "ok"),
                                          !.model = DictGet(models, name)]]
                    /\ returned' = returned \cup {DictGet(models, name)}
               ELSE /\ req' = [req EXCEPT ![r] =
                                 [entered EXCEPT !.pc = "load"]]
                    /\ UNCHANGED returned
       /\ models' = IF o = "ok" /\ CacheHit(name) THEN AfterHit(models, name)
                    ELSE models
  /\ UNCHANGED << model_info, device, cfgVars, clean, history, last_hit,
                  last_unload, loads, loop >>

\* mutant: the device is never downgraded
DowngradeNever(dev, available) == dev

\* 'if self.device == "cuda" and not torch.cuda.is_available():
\*      self.device = "cpu"'
Downgrade(dev, available) ==
  IF dev = "cuda" /\ ~available THEN "cpu" ELSE dev

\* ModelManager.load_model up to "self.models[model_name] = model"; at most
\* cap models are constructed in one behaviour
LoadModelUpTo(r, cap) ==
  LET name == req[r].loading
      h(dev) == [name |-> name, id |-> loads + 1, device |-> dev]
  IN
  /\ req[r].pc = "load"
  /\ \E avail \in (IF device = "cuda" THEN BOOLEAN ELSE {TRUE}),
        o \in (IF loads < cap THEN ConstructOutcomes
               ELSE ConstructOutcomes \ {"ok"}) :
       LET checked == IF device # "cuda" THEN "unchecked"
                      ELSE IF avail THEN "yes" ELSE "no"
       IN
       /\ device' = Downgrade(device, avail)
       /\ IF o = "ok"
          THEN /\ loads' = loads + 1
               /\ models' = DictSet(models, name, h(device'))
               /\ req' = [req EXCEPT ![r].pc = "info",
                                     ![r].cuda_available = checked,
                                     ![r].model = h(device')]
          ELSE /\ req' = [req EXCEPT ![r].pc = "except", ![r].exc = o,
                                     ![r].cuda_available = checked,
                                     ![r].outcomes = Append(@, "failed")]
               /\ UNCHANGED << loads, models >>
  /\ UNCHANGED << model_info, cfgVars, histVars, sys_modules, loop >>

LoadModel(r) == LoadModelUpTo(r, MaxLoads)

\* ModelManager.load_model from "self.model_info[model_name] = {...}" to
\* its return, _cleanup_cache included
StoreInfo(r) ==
  LET name == req[r].loading
      h == req[r].model
      info == [name |-> name, dimensions |-> Dimensions(name),
               max_sequence_length |-> MaxSeqLength(name), device |-> device]
      stored == InfoSet(model_info, info)
      full == Len(models) > max_cache_size
  IN
  /\ req[r].pc = "info"
  /\ \E o \in InfoOutcomes :
       IF o = "ok"
       THEN /\ model_info' = IF full THEN CleanupInfo(models, stored)
                             ELSE stored
            /\ models' = IF full THEN CleanupModels(models) ELSE models
            /\ req' = [req EXCEPT ![r].pc = "got",
                                  ![r].outcomes = Append(@, "ok")]
            /\ returned' =
                 IF full /\ Len(models) > 0
                 THEN DropName(returned \cup {h}, models[1].name)
                 ELSE returned \cup {h}
            /\ history' = IF clean THEN Append(history, name) ELSE history
            /\ clean' = clean
       ELSE /\ req' = [req EXCEPT ![r].pc = "except", ![r].exc = o,
                                  ![r].outcomes = Append(@, "failed"),
                                  ![r].model = NoHandle]
            /\ clean' = FALSE
            /\ history' = << >>
            /\ UNCHANGED << models, model_info, returned >>
  /\ UNCHANGED << device, cfgVars, sys_modules, loads, loop, last_hit,
                  last_unload >>

\* mutant: the except block retries whatever the failed name was
ShouldFallbackAlways(r) == TRUE

\* the test of the except block: "mapped_model_name != self.default_model_name"
ShouldFallback(r) == req[r].mapped_model_name # EMBEDDING_MODEL

\* mutant: the except block retries the name that has just failed
FallbackNameSame(r) == req[r].mapped_model_name

\* the name the except block retries with: self.default_model_name
FallbackName(r) == EMBEDDING_MODEL

\* where an exception of get_model lands.  In generate_embedding and
\* generate_embeddings_batch only the first call is inside the try; the
\* except block retries with the default or re-raises.  health_check swallows
\* the exception, readiness_check lets it reach its outer handler.
Except(r) ==
  LET cleared == [req[r] EXCEPT !.before = << >>, !.before_info = {},
                                !.prev = NoHandle, !.loads0 = 0]
  IN
  /\ req[r].pc = "except"
  /\ IF req[r].kind \in {"generate", "batch"}
     THEN IF Len(req[r].calls) = 1 /\ ShouldFallback(r)
          THEN req' = [req EXCEPT ![r] =
                 [cleared EXCEPT !.pc = "get", !.exc = "none",
                                 !.mapped_model_name = FallbackName(r)]]
          ELSE req' = [req EXCEPT ![r] =
                 [cleared EXCEPT !.pc = "route", !.failed_at = "load"]]
     ELSE IF req[r].kind = "health"
          THEN req' = [req EXCEPT ![r] =
                 [cleared EXCEPT !.pc = "route", !.exc = "none"]]
          ELSE req' = [req EXCEPT ![r] =
                 [cleared EXCEPT !.pc = "route", !.failed_at = "load"]]
  /\ UNCHANGED << cacheVars, cfgVars, histVars, sys_modules, loads, loop >>

\* mutant: the truncation keeps the end of the text
TruncateTextTail(t) ==
  IF Len(t) > MAX_TEXT_LENGTH
  THEN SubSeq(t, Len(t) - MAX_TEXT_LENGTH + 1, Len(t)) ELSE t

\* text[:self.max_text_length] when len(text) > self.max_text_length
TruncateText(t) ==
  IF Len(t) > MAX_TEXT_LENGTH THEN Prefix(t, MAX_TEXT_LENGTH) ELSE t

\* mutant: the call returns the name the caller asked for
ReturnedNameRequested(q) == q.model_name

\* "model_name = mapped_model_name  # Use mapped name for return value"
ReturnedName(q) == q.mapped_model_name

\* "model_name = mapped_model_name" and the truncation of the text(s)
Truncate(r) ==
  /\ req[r].pc = "got"
  /\ req[r].kind \in {"generate", "batch"}
  /\ req' = [req EXCEPT ![r] =
       [@ EXCEPT !.pc = "encode",
                 !.before = << >>, !.before_info = {},
                 !.prev = NoHandle, !.loads0 = 0,
                 !.processed_texts =
                    [i \in 1..Len(req[r].texts) |->
                       TruncateText(req[r].texts[i])]]]
  /\ UNCHANGED << cacheVars, cfgVars, histVars, sys_modules, loads, loop >>

\* mutant: encode is called on whatever the cache holds for the name now
EncodeHandleFromCache(r) ==
  IF HasKey(models, req[r].mapped_model_name)
  THEN DictGet(models, req[r].mapped_model_name)
  ELSE NoHandle

\* the object encode is called on: the local variable "model"
EncodeHandle(r) == req[r].model

\* the vector a model produces for a text
Embedding(h, t) == [by |-> h, of |-> t]

\* mutant: a failing encode lands in the except block of the load, which
\* goes on to the default model
EncodeFailedFallsBack(r, o) ==
  [req[r] EXCEPT !.pc = "except", !.exc = o, !.failed_at = "encode"]

\* "except Exception: raise" around model.encode: the exception leaves the
\* call
EncodeFailed(r, o) ==
  [req[r] EXCEPT !.pc = "route", !.exc = o, !.failed_at = "encode"]

\* generate_embedding: model.encode(text, ...)
Encode(r) ==
  /\ req[r].pc = "encode"
  /\ req[r].kind = "generate"
  /\ \E o \in (IF EncodeHandle(r) = NoHandle THEN {"KeyError"}
               ELSE EncodeOutcomes) :
       IF o = "ok"
       THEN req' = [req EXCEPT ![r].pc = "route",
                      ![r].all_embeddings =
                         << Embedding(EncodeHandle(r),
                                      req[r].processed_texts[1]) >>]
       ELSE req' = [req EXCEPT ![r] = EncodeFailed(r, o)]
  /\ UNCHANGED << cacheVars, cfgVars, histVars, sys_modules, loads, loop >>

\* mutant: every turn of the loop takes the first texts again
ChunkFromStart(texts, i) ==
  SubSeq(texts, 1, IF batch_size < Len(texts) THEN batch_size ELSE Len(texts))

\* processed_texts[i:i + self.batch_size]
Chunk(texts, i) ==
  SubSeq(texts, i + 1,
         IF i + batch_size < Len(texts) THEN i + batch_size ELSE Len(texts))

\* mutant: a failing chunk is skipped and the call goes on to return
ChunkFailedSwallowed(r, o) ==
  [req[r] EXCEPT !.pc = "route", !.failed_at = "encode"]

\* "except Exception: raise" around the loop: the exception leaves the call
ChunkFailed(r, o) ==
  [req[r] EXCEPT !.pc = "route", !.exc = o, !.failed_at = "encode"]

\* generate_embeddings_batch: one turn of the loop over
\* range(0, len(processed_texts), self.batch_size)
EncodeChunk(r) ==
  LET i == req[r].i
      n == Len(req[r].processed_texts)
      batch == Chunk(req[r].processed_texts, i)
      out == [j \in 1..Len(batch) |-> Embedding(EncodeHandle(r), batch[j])]
  IN
  /\ req[r].pc = "encode"
  /\ req[r].kind = "batch"
  /\ \E o \in (IF EncodeHandle(r) = NoHandle THEN {"KeyError"}
               ELSE EncodeOutcomes) :
       IF o = "ok"
       THEN req' = [req EXCEPT
                      ![r].pc = IF i + batch_size < n THEN "encode"
                                ELSE "route",
                      ![r].i = i + batch_size,
                      ![r].all_embeddings = @ \o out]
       ELSE req' = [req EXCEPT ![r] = ChunkFailed(r, o)]
  /\ UNCHANGED << cacheVars, cfgVars, histVars, sys_modules, loads, loop >>

\* health_check / readiness_check: get_model_info(settings.EMBEDDING_MODEL)
HealthInfo(r) ==
  /\ req[r].pc = "got"
  /\ req[r].kind \in {"health", "ready"}
  /\ req' = [req EXCEPT ![r] =
       [@ EXCEPT !.pc = "route",
                 !.before = << >>, !.before_info = {},
                 !.prev = NoHandle, !.loads0 = 0,
                 !.response = [NoResponse EXCEPT
                                 !.info = GetModelInfo(EMBEDDING_MODEL)]]]
  /\ UNCHANGED << cacheVars, cfgVars, histVars, sys_modules, loads, loop >>

\* the except ladder of the two embedding routes
StatusOf(exc) ==
  IF exc = "none" THEN 200
  ELSE IF exc = "ValueError" THEN 400
  ELSE IF exc = "OSError_DLL" THEN 503
  ELSE 500

\* the handler returns its response or raises its HTTPException
Route(r) ==
  LET q == req[r]
      embedded ==
        IF q.exc = "none"
        THEN [NoResponse EXCEPT
                !.status = 200, !.model = ReturnedName(q),
                !.embeddings = q.all_embeddings,
                !.dimensions = IF q.all_embeddings = << >> THEN 0
                               ELSE Dimensions(q.all_embeddings[1].by.name)]
        ELSE [NoResponse EXCEPT !.status = StatusOf(q.exc),
                                !.detail = DetailOf(q.exc)]
      health == [q.response EXCEPT !.status = 200, !.device = DEVICE]
      ready ==
        IF q.exc # "none" \/ q.response.info = NoInfo
        THEN [NoResponse EXCEPT !.status = 503]
        ELSE [q.response EXCEPT !.status = 200, !.device = DEVICE]
  IN
  /\ req[r].pc = "route"
  /\ ~req[r].direct
  /\ req' = [req EXCEPT ![r].pc = "done",
               ![r].response = IF q.kind \in {"generate", "batch"}
                               THEN embedded
                               ELSE IF q.kind = "health" THEN health
                               ELSE ready]
  /\ loop' = 0
  /\ UNCHANGED << cacheVars, cfgVars, histVars, sys_modules, loads >>

\* the response has been sent; the slot can take another request
Collect(r) ==
  /\ req[r].pc = "done"
  /\ req' = [req EXCEPT ![r] = IdleReq]
  /\ UNCHANGED << cacheVars, cfgVars, histVars, sys_modules, loads, loop >>

CanonicalNames == {MapModelName(m) : m \in RequestedModels}

\* mutant: unload_model reports the removal but leaves the handle
UnloadedModelsKept(ms, name) == ms

\* "del self.models[model_name]"
UnloadedModels(ms, name) == DictDel(ms, name)

\* ModelManager.unload_model, called between two handlers
Unload(name) ==
  /\ LoopFree
  /\ IF HasKey(models, name)
     THEN /\ models' = UnloadedModels(models, name)
          /\ model_info' = InfoDel(model_info, name)
          /\ returned' = DropName(returned, name)
          /\ clean' = FALSE
          /\ history' = << >>
     ELSE UNCHANGED << models, model_info, returned, clean, history >>
  /\ UNCHANGED << device, cfgVars, sys_modules, loads, loop, req, last_hit,
                  last_unload >>

\* ----------------------------------------------------------- direct calls
\* The service and the cache are module-level objects; the actions below are
\* calls made on them directly, one at a time, without a route in front.
CallFree(r) ==
  /\ LoopFree
  /\ req[r].pc = "idle"
  /\ \A q \in 1..(r - 1) : req[q].pc # "idle"

\* embedding_service.generate_embeddings_batch(texts, model_name)
CallBatch(r, Ms, Bs) ==
  /\ CallFree(r)
  /\ \E m \in Ms, ts \in Bs :
       req' = [req EXCEPT ![r] =
                 [IdleReq EXCEPT !.pc = "map", !.kind = "batch",
                    !.direct = TRUE, !.model_name = m, !.texts = ts]]
  /\ loop' = r
  /\ last_unload' = << >>
  /\ UNCHANGED << cacheVars, cfgVars, returned, clean, history, last_hit,
                  sys_modules, loads >>

\* embedding_service.generate_embedding(text, model_name)
CallGenerate(r, Ms, Ts) ==
  /\ CallFree(r)
  /\ \E m \in Ms, t \in Ts :
       req' = [req EXCEPT ![r] =
                 [IdleReq EXCEPT !.pc = "map", !.kind = "generate",
                    !.direct = TRUE, !.model_name = m, !.texts = <<t>>]]
  /\ loop' = r
  /\ last_unload' = << >>
  /\ UNCHANGED << cacheVars, cfgVars, returned, clean, history, last_hit,
                  sys_modules, loads >>

\* model_manager.get_model(model_name)
CallGetModel(r, Ns) ==
  /\ CallFree(r)
  /\ \E name \in Ns :
       req' = [req EXCEPT ![r] =
                 [IdleReq EXCEPT !.pc = "get", !.kind = "get_model",
                    !.direct = TRUE, !.mapped_model_name = name,
                    !.after_unload = (last_unload = name)]]
  /\ loop' = r
  /\ last_unload' = << >>
  /\ UNCHANGED << cacheVars, cfgVars, returned, clean, history, last_hit,
                  sys_modules, loads >>

\* model_manager.unload_model(model_name): the whole call, its return value
\* kept in response.status (1 for True, 0 for False)
UnloadModel(r, Ns) ==
  /\ CallFree(r)
  /\ \E name \in Ns :
       /\ req' = [req EXCEPT ![r] =
                 [IdleReq EXCEPT !.pc = "done", !.kind = "unload",
                    !.direct = TRUE, !.loading = name,
                    !.before = models, !.before_info = model_info,
                    !.response = [NoResponse EXCEPT !.status =
                                    IF HasKey(models, name) THEN 1 ELSE 0]]]
       /\ IF HasKey(models, name)
          THEN /\ models' = UnloadedModels(models, name)
               /\ model_info' = InfoDel(model_info, name)
               /\ returned' = DropName(returned, name)
               /\ clean' = FALSE
               /\ history' = << >>
               /\ last_unload' = name
          ELSE /\ last_unload' = << >>
               /\ UNCHANGED << models, model_info, returned, clean, history >>
  /\ UNCHANGED << device, cfgVars, sys_modules, loads, loop, last_hit >>

\* a direct call ends: its value, or its exception, goes back to the caller
Return(r) ==
  LET q == req[r]
      hit == q.kind = "get_model" /\ q.exc = "none" /\ q.loads0 = loads
  IN
  /\ q.direct
  /\ \/ q.pc = "route"
     \/ q.pc = "got" /\ q.kind = "get_model"
  /\ req' = [req EXCEPT ![r].pc = "done",
               ![r].response =
                  IF q.exc = "none"
                  THEN [NoResponse EXCEPT
                          !.model = ReturnedName(q),
                          !.embeddings = q.all_embeddings,
                          !.dimensions =
                             IF q.all_embeddings = << >> THEN 0
                             ELSE Dimensions(q.all_embeddings[1].by.name)]
                  ELSE NoResponse]
  /\ loop' = 0
  /\ last_hit' = IF hit THEN [name |-> q.loading, at |-> Len(history)]
                 ELSE last_hit
  /\ UNCHANGED << cacheVars, cfgVars, returned, clean, history, last_unload,
                  sys_modules, loads >>

Next ==
  \/ \E r \in Requests : Arrive(r)
  \/ \E r \in Requests : DispatchGenerate(r, RequestedModels, TextPool)
  \/ \E r \in Requests : DispatchBatch(r, RequestedModels, BatchPool)
  \/ \E r \in Requests : DispatchHealth(r)
  \/ \E r \in Requests : ListModels(r)
  \/ \E r \in Requests : MapName(r)
  \/ \E r \in Requests : GetModel(r)
  \/ \E r \in Requests : LoadModel(r)
  \/ \E r \in Requests : StoreInfo(r)
  \/ \E r \in Requests : Except(r)
  \/ \E r \in Requests : Truncate(r)
  \/ \E r \in Requests : Encode(r)
  \/ \E r \in Requests : EncodeChunk(r)
  \/ \E r \in Requests : HealthInfo(r)
  \/ \E r \in Requests : Route(r)
  \/ \E r \in Requests : Collect(r)
  \/ \E name \in CanonicalNames : Unload(name)

Spec == Init /\ [][Next]_vars

\* ------------------------------------------------- the service, in detail
T4 == <<"h","o","l","a">>

\* every list of 0..n texts drawn from ts
Lists(ts, n) == UNION { [1..k -> ts] : k \in 0..n }

ServiceModels == { << >>, LaBSE }
ServiceTexts == { T1, T3, T4 }
ServiceBatches == Lists(ServiceTexts, MaxTexts)

\* EmbeddingService() and ModelManager() constructed with any batch size
\* from 1 up
InitService ==
  /\ models = << >>
  /\ model_info = {}
  /\ max_cache_size = 1
  /\ DEVICE = "cpu"
  /\ device = DEVICE
  /\ batch_size \in 1..BATCH_SIZE
  /\ ENVIRONMENT = "development"
  /\ sys_modules = "unset"
  /\ loads = 0
  /\ loop = 0
  /\ req = [r \in Requests |-> IdleReq]
  /\ returned = {}
  /\ clean = TRUE
  /\ history = << >>
  /\ last_hit = NoHit
  /\ last_unload = << >>

NextService ==
  \/ \E r \in Requests : CallGenerate(r, ServiceModels, ServiceTexts)
  \/ \E r \in Requests : CallBatch(r, ServiceModels, ServiceBatches)
  \/ \E r \in Requests : MapName(r)
  \/ \E r \in Requests : GetModel(r)
  \/ \E r \in Requests : LoadModel(r)
  \/ \E r \in Requests : StoreInfo(r)
  \/ \E r \in Requests : Except(r)
  \/ \E r \in Requests : Truncate(r)
  \/ \E r \in Requests : Encode(r)
  \/ \E r \in Requests : EncodeChunk(r)
  \/ \E r \in Requests : Return(r)
  \/ \E r \in Requests : Collect(r)

SpecService == InitService /\ [][NextService]_vars

\* --------------------------------------------------- the cache, in detail
\* ModelManager() constructed under any capacity
InitCache ==
  /\ models = << >>
  /\ model_info = {}
  /\ max_cache_size \in 0..CacheK
  /\ DEVICE = "cpu"
  /\ device = DEVICE
  /\ batch_size = BATCH_SIZE
  /\ ENVIRONMENT = "development"
  /\ sys_modules = "unset"
  /\ loads = 0
  /\ loop = 0
  /\ req = [r \in Requests |-> IdleReq]
  /\ returned = {}
  /\ clean = TRUE
  /\ history = << >>
  /\ last_hit = NoHit
  /\ last_unload = << >>

CacheNames == { EMBEDDING_MODEL, AllMpnetBaseV2, LaBSE }

NextCache ==
  \/ \E r \in Requests : CallGetModel(r, CacheNames)
  \/ \E r \in Requests : UnloadModel(r, CacheNames)
  \/ \E r \in Requests : GetModel(r)
  \/ \E r \in Requests : LoadModelUpTo(r, CacheLoads)
  \/ \E r \in Requests : StoreInfo(r)
  \/ \E r \in Requests : Except(r)
  \/ \E r \in Requests : Return(r)
  \/ \E r \in Requests : Collect(r)

SpecCache == InitCache /\ [][NextCache]_vars

\* -------------------------------------------------- the device, in detail
\* ModelManager() constructed under either device
InitDevice ==
  /\ models = << >>
  /\ model_info = {}
  /\ max_cache_size \in 1..CacheK
  /\ DEVICE \in {"cpu", "cuda"}
  /\ device = DEVICE
  /\ batch_size = BATCH_SIZE
  /\ ENVIRONMENT = "development"
  /\ sys_modules = "unset"
  /\ loads = 0
  /\ loop = 0
  /\ req = [r \in Requests |-> IdleReq]
  /\ returned = {}
  /\ clean = TRUE
  /\ history = << >>
  /\ last_hit = NoHit
  /\ last_unload = << >>

NextDevice ==
  \/ \E r \in Requests : CallGetModel(r, CacheNames)
  \/ \E r \in Requests : GetModel(r)
  \/ \E r \in Requests : LoadModelUpTo(r, CacheLoads)
  \/ \E r \in Requests : StoreInfo(r)
  \/ \E r \in Requests : Except(r)
  \/ \E r \in Requests : Return(r)
  \/ \E r \in Requests : Collect(r)

SpecDevice == InitDevice /\ [][NextDevice]_vars

\* ------------------------------------------------ deployments, in detail
\* the service started in either environment and under either device
InitDeploy ==
  /\ models = << >>
  /\ model_info = {}
  /\ max_cache_size = 1
  /\ DEVICE \in {"cpu", "cuda"}
  /\ device = DEVICE
  /\ batch_size = BATCH_SIZE
  /\ ENVIRONMENT \in {"development", "production"}
  /\ sys_modules = "unset"
  /\ loads = 0
  /\ loop = 0
  /\ req = [r \in Requests |-> IdleReq]
  /\ returned = {}
  /\ clean = TRUE
  /\ history = << >>
  /\ last_hit = NoHit
  /\ last_unload = << >>

NextDeploy ==
  \/ \E r \in Requests : Arrive(r)
  \/ \E r \in Requests : DispatchGenerate(r, {<< >>, LaBSE}, {T3})
  \/ \E r \in Requests : DispatchBatch(r, {<< >>}, {<<T1, T3>>})
  \/ \E r \in Requests : DispatchHealth(r)
  \/ \E r \in Requests : ListModels(r)
  \/ \E r \in Requests : MapName(r)
  \/ \E r \in Requests : GetModel(r)
  \/ \E r \in Requests : LoadModel(r)
  \/ \E r \in Requests : StoreInfo(r)
  \/ \E r \in Requests : Except(r)
  \/ \E r \in Requests : Truncate(r)
  \/ \E r \in Requests : Encode(r)
  \/ \E r \in Requests : EncodeChunk(r)
  \/ \E r \in Requests : HealthInfo(r)
  \/ \E r \in Requests : Route(r)
  \/ \E r \in Requests : Collect(r)

SpecDeploy == InitDeploy /\ [][NextDeploy]_vars

\* ------------------------------------------- the name mapping, in detail
SentenceTransformersLaBSE ==
  <<"s","e","n","t","e","n","c","e","-","t","r","a","n","s","f","o","r",
    "m","e","r","s","/","L","a","B","S","E">>

ParaphraseMiniLM ==
  <<"p","a","r","a","p","h","r","a","s","e","-","M","i","n","i","L","M">>

\* a prefix of three table keys that is not a key itself
TextEmbedding3 ==
  <<"t","e","x","t","-","e","m","b","e","d","d","i","n","g","-","3">>

\* looks like a canonical name but matches no pattern
AllMinilmUnderscore == <<"a","l","l","_","m","i","n","i","l","m">>

\* s with one letter, or its first n letters, in upper case
CaseVariants(s) ==
  {UpperAt(s, {i}) : i \in 1..Len(s)} \cup
  {UpperAt(s, 1..n) : n \in 0..Len(s)}

\* the keys of model_name_map in varied letter case
TableInputs == UNION {CaseVariants(e[1]) : e \in model_name_map}

\* names that contain a pattern, in varied letter case
PatternInputs ==
  CaseVariants(EMBEDDING_MODEL) \cup CaseVariants(AllMpnetBaseV2) \cup
  CaseVariants(ParaphraseMiniLM) \cup CaseVariants(SentenceTransformersLaBSE)

\* names that are in no table and contain no pattern
UnknownInputs ==
  CaseVariants(LaBSE) \cup CaseVariants(TextEmbedding3) \cup
  CaseVariants(AllMinilmUnderscore)

ResolveInputs == {<< >>} \cup TableInputs \cup PatternInputs \cup UnknownInputs

\* embedding_service._map_model_name(model_name): the whole call
CallResolve(r, Ns) ==
  /\ CallFree(r)
  /\ \E name \in Ns :
       req' = [req EXCEPT ![r] =
                 [IdleReq EXCEPT !.pc = "done", !.kind = "resolve",
                    !.direct = TRUE, !.model_name = name,
                    !.mapped_model_name = MapModelName(name),
                    !.lookups = MapLookups(name)]]
  /\ UNCHANGED << cacheVars, cfgVars, histVars, sys_modules, loads, loop >>

\* EmbeddingService() as constructed at import
InitResolve ==
  /\ models = << >>
  /\ model_info = {}
  /\ max_cache_size = 1
  /\ DEVICE = "cpu"
  /\ device = DEVICE
  /\ batch_size = BATCH_SIZE
  /\ ENVIRONMENT = "development"
  /\ sys_modules = "unset"
  /\ loads = 0
  /\ loop = 0
  /\ req = [r \in Requests |-> IdleReq]
  /\ returned = {}
  /\ clean = TRUE
  /\ history = << >>
  /\ last_hit = NoHit
  /\ last_unload = << >>

\* _map_model_name called on its own, and from generate_embedding with a
\* name it passes through or maps
NextResolve ==
  \/ \E r \in Requests : CallResolve(r, ResolveInputs)
  \/ \E r \in Requests :
       CallGenerate(r, {LaBSE, Upper(TextEmbedding3Large)}, {T1})
  \/ \E r \in Requests : MapName(r)
  \/ \E r \in Requests : GetModel(r)
  \/ \E r \in Requests : LoadModel(r)
  \/ \E r \in Requests : StoreInfo(r)
  \/ \E r \in Requests : Except(r)
  \/ \E r \in Requests : Truncate(r)
  \/ \E r \in Requests : Encode(r)
  \/ \E r \in Requests : Return(r)
  \/ \E r \in Requests : Collect(r)

SpecResolve == InitResolve /\ [][NextResolve]_vars

\* ------------------------------------------------------------------ claims
Embedders == {r \in Requests : req[r].kind \in {"generate", "batch"}}

\* no request is between load_model's insertion of the handle and its return
NoLoadInProgress == \A r \in Requests : req[r].pc \notin {"load", "info"}

CachedNames == {models[i].name : i \in 1..Len(models)}
InfoNames == {e.name : e \in model_info}

\* C1: with capacity K >= 1, whenever no get_model call is in progress the
\* cache holds at most K models, whatever calls (successful or failing, direct
\* or through the embedding calls and their fallback) were made before.
C1_CacheWithinCapacity ==
  (max_cache_size >= 1 /\ NoLoadInProgress) => Len(models) <= max_cache_size

\* C2: when a get_model call on a miss has just raised (whichever step
\* failed), the name it was loading is not cached and the cache (handles and
\* metadata) is what it was when the call started.
C2_FailedLoadLeavesCacheUnchanged ==
  \A r \in Requests :
    req[r].pc = "except" =>
      /\ ~HasKey(models, req[r].loading)
      /\ models = req[r].before
      /\ model_info = req[r].before_info

\* an embedding call whose first get_model failed for a name other than the
\* default and whose second get_model (the default) returned a handle
FellBack(r) ==
  /\ r \in Embedders
  /\ req[r].outcomes = <<"failed", "ok">>
  /\ req[r].calls[1] # EMBEDDING_MODEL

\* C3 as stated: after a failed load of X # default and a successful load of
\* the default, the call succeeds (status 200), every vector comes from the
\* default model's handle and the reported model is the default's name, not X
\* and not the requested name.
C3_FallbackCallSucceeds ==
  \A r \in Requests :
    (FellBack(r) /\ req[r].pc = "done") =>
      /\ req[r].response.status = 200
      /\ req[r].response.model = EMBEDDING_MODEL
      /\ req[r].response.model \notin {req[r].calls[1], req[r].model_name}
      /\ \A i \in 1..Len(req[r].response.embeddings) :
           req[r].response.embeddings[i].by.name = EMBEDDING_MODEL

\* C3 amended: after a failed load of X # default and a successful load of
\* the default, the call holds the default model's handle and cannot end in a
\* load failure; it fails only if the inference itself fails, and otherwise
\* it succeeds with every vector produced by that handle and the default's
\* name reported (not X, not the requested name).
C3_FallbackUsesDefault ==
  \A r \in Requests :
    FellBack(r) =>
      /\ req[r].model.name = EMBEDDING_MODEL
      /\ req[r].model.id >= 1
      /\ req[r].mapped_model_name = EMBEDDING_MODEL
      /\ req[r].failed_at \in {"none", "encode"}
      /\ req[r].pc = "done" =>
           IF req[r].exc = "none"
           THEN /\ req[r].response.status = 200
                /\ req[r].response.model = EMBEDDING_MODEL
                /\ req[r].response.model
                     \notin {req[r].calls[1], req[r].model_name}
                /\ Len(req[r].response.embeddings) = Len(req[r].texts)
                /\ \A i \in 1..Len(req[r].response.embeddings) :
                     req[r].response.embeddings[i].by = req[r].model
           ELSE req[r].failed_at = "encode"

\* C3 witness: a call that fell back to the default has answered 200
C3_Witness ==
  \E r \in Requests :
    /\ FellBack(r)
    /\ req[r].pc = "done"
    /\ req[r].response.status = 200
    /\ req[r].response.model = EMBEDDING_MODEL

\* C4: an embedding call makes at most two get_model calls; a second one
\* only after the first failed for a name other than the default, and always
\* for the default; a failed load of the default as first name is propagated
\* at once (no second call), so the call ends.
C4_AtMostTwoLoadAttempts ==
  \A r \in Embedders :
    /\ Len(req[r].calls) <= 2
    /\ Len(req[r].outcomes) <= Len(req[r].calls)
    /\ Len(req[r].calls) = 2 =>
         /\ req[r].outcomes[1] = "failed"
         /\ req[r].calls[1] # EMBEDDING_MODEL
         /\ req[r].calls[2] = EMBEDDING_MODEL
    /\ (/\ Len(req[r].outcomes) >= 1
        /\ req[r].outcomes[1] = "failed"
        /\ req[r].calls[1] = EMBEDDING_MODEL) =>
         /\ Len(req[r].calls) = 1
         /\ req[r].pc \in {"except", "route", "done"}
         /\ req[r].exc # "none"
         /\ req[r].pc \in {"route", "done"} => req[r].failed_at = "load"
    /\ req[r].outcomes = <<"failed", "failed">> =>
         /\ req[r].pc \in {"except", "route", "done"}
         /\ req[r].exc # "none"

\* C4 witness: a call with no requested model (the default) whose load failed
\* has ended after one attempt, and did not answer 200
C4_Witness ==
  \E r \in Embedders :
    /\ req[r].pc = "done"
    /\ req[r].model_name = << >>
    /\ req[r].calls = <<EMBEDDING_MODEL>>
    /\ req[r].outcomes = <<"failed">>
    /\ req[r].response.status # 200

\* the last k elements of a sequence
LastK(h, k) == IF Len(h) > k THEN SubSeq(h, Len(h) - k + 1, Len(h)) ELSE h

\* request r is at the return of a get_model call that loaded the model
JustLoaded(r) == req[r].pc = "got" /\ req[r].loads0 + 1 = loads

C6_SecondCallHits ==
  \A r \in Requests :
    (req[r].pc = "got" /\ req[r].prev # NoHandle) =>
      /\ req[r].model = req[r].prev
      /\ loads = req[r].loads0
      /\ models = req[r].before
      /\ model_info = req[r].before_info

\* C6 witness: a get_model call has returned for a name whose handle an
\* earlier call had returned
C6_Witness ==
  \E r \in Requests :
    /\ req[r].pc = "got"
    /\ req[r].prev # NoHandle
    /\ req[r].model = req[r].prev

Running == {"map", "get", "load", "info", "except", "got", "encode", "route"}

\* C7: at most one request is inside its handler (so inside a cache
\* mutation) at a time, no call fails on a missing key, a load removes at
\* most one entry, and between calls the cache is within its capacity K >= 1.
C7_MutationsExclusiveAndSafe ==
  /\ Cardinality({r \in Requests : req[r].pc \in Running}) <= 1
  /\ \A r \in Requests : req[r].exc # "KeyError"
  /\ \A r \in Requests : JustLoaded(r) => Len(models) >= Len(req[r].before)
  /\ (max_cache_size >= 1 /\ NoLoadInProgress) =>
       Len(models) <= max_cache_size

\* C8: the vectors of a request are all produced by the handle get_model
\* returned to it, whether or not the cache still holds that model, and the
\* inference never fails on a handle missing from the cache.
C8_InferenceUsesHeldHandle ==
  \A r \in Embedders :
    /\ req[r].exc # "KeyError"
    /\ \A i \in 1..Len(req[r].all_embeddings) :
         req[r].all_embeddings[i].by = req[r].model
    /\ req[r].pc \in {"encode"} =>
         /\ req[r].model # NoHandle
         /\ req[r].model.name = req[r].mapped_model_name
    /\ (req[r].pc = "done" /\ req[r].response.status = 200) =>
         /\ Len(req[r].response.embeddings) = Len(req[r].texts)
         /\ \A i \in 1..Len(req[r].response.embeddings) :
              req[r].response.embeddings[i].by = req[r].model

\* C8 witness: a request has answered 200 with vectors from a handle that
\* the cache no longer holds
C8_Witness ==
  \E r \in Embedders :
    /\ req[r].pc = "done"
    /\ req[r].response.status = 200
    /\ Len(req[r].response.embeddings) >= 1
    /\ req[r].model # NoHandle
    /\ \A i \in 1..Len(models) : models[i].handle # req[r].model

\* C9: whenever no load is in progress, the names with metadata are exactly
\* the names with a handle.
C9_InfoMatchesHandles ==
  NoLoadInProgress => InfoNames = CachedNames

\* C10: an embedding request that ended in a load failure (of the default,
\* or of the requested model and then the default, or of the runtime
\* import) is answered 503.
C10_ModelUnavailableIs503 ==
  \A r \in Embedders :
    (req[r].pc = "done" /\ req[r].failed_at = "load") =>
      req[r].response.status = 503

\* C11: every embedding request rejected for its text (empty text, empty
\* list, text over the schema's limit) is answered 400, and that status is
\* used for no load or inference failure.
LoadOrInferenceStatuses ==
  { StatusOf(e) : e \in ((ImportOutcomes \cup ConstructOutcomes
                            \cup InfoOutcomes \cup EncodeOutcomes) \ {"ok"}) }

C11_ValidationIs400 ==
  \A r \in Embedders :
    (req[r].pc = "done" /\ req[r].failed_at = "validation") =>
      /\ req[r].response.status = 400
      /\ req[r].response.status \notin LoadOrInferenceStatuses

\* C12: a finished list-models query has answered 200 with the default model,
\* the supported models, the cached names in cache order and the metadata of
\* each of them.
C12_ListModelsSucceeds ==
  \A r \in Requests :
    (req[r].pc = "done" /\ req[r].kind = "models") =>
      /\ req[r].response.status = 200
      /\ req[r].response.default_model = EMBEDDING_MODEL
      /\ req[r].response.supported_models = supported_models_list
      /\ req[r].response.loaded_models = Keys(models)
      /\ Len(req[r].response.model_info) = Len(models)
      /\ \A i \in 1..Len(req[r].response.model_info) :
           /\ req[r].response.model_info[i].name = models[i].name
           /\ req[r].response.model_info[i] \in model_info

\* C20: while the load or the inference of one request is in progress, the
\* event loop can start (and, the handler being one step, complete) the
\* list-models query of another request that is waiting.
C20_LoopNotBlocked ==
  \A r, q \in Requests :
    (req[r].pc \in {"load", "info", "encode"} /\ req[q].pc = "pending") =>
      ENABLED ListModels(q)

\* C13: generate_embeddings_batch called with an empty list raises its
\* validation error at once: no name is resolved, get_model is not called,
\* nothing is truncated or encoded, and no step of the call changes the cache.
EmptyBatchCalls ==
  { r \in Requests : /\ req[r].kind = "batch"
                     /\ req[r].direct
                     /\ req[r].texts = << >> }

C13_EmptyBatchState ==
  \A r \in EmptyBatchCalls :
    req[r].pc # "map" =>
      /\ req[r].pc \in {"route", "done"}
      /\ req[r].exc = "ValueError"
      /\ req[r].failed_at = "validation"
      /\ req[r].mapped_model_name = << >>
      /\ req[r].calls = << >>
      /\ req[r].processed_texts = << >>
      /\ req[r].all_embeddings = << >>
      /\ req[r].pc = "done" => req[r].response = NoResponse

C13_EmptyBatchRejected ==
  /\ []C13_EmptyBatchState
  /\ [][ (EmptyBatchCalls # {}) =>
           UNCHANGED << models, model_info, device, loads, sys_modules >> ]_vars

\* C13 witness: a call with an empty list has ended with the validation error
C13_Witness ==
  \E r \in EmptyBatchCalls :
    /\ req[r].pc = "done"
    /\ req[r].exc = "ValueError"
    /\ req[r].calls = << >>

\* C14: while a batch call runs, the vectors collected so far are those of
\* the first texts, in order; a call that succeeds returns one vector per
\* input text, the i-th being the vector of its model for the (truncated)
\* i-th text.
C14_BatchOrderPreserved ==
  \A r \in Embedders :
    req[r].kind = "batch" =>
      /\ Len(req[r].all_embeddings) <= Len(req[r].texts)
      /\ \A j \in 1..Len(req[r].all_embeddings) :
           req[r].all_embeddings[j] =
             Embedding(req[r].model, TruncateText(req[r].texts[j]))
      /\ (req[r].pc = "done" /\ req[r].exc = "none") =>
           /\ Len(req[r].response.embeddings) = Len(req[r].texts)
           /\ \A j \in 1..Len(req[r].texts) :
                req[r].response.embeddings[j] =
                  Embedding(req[r].model, TruncateText(req[r].texts[j]))

\* C14 witness: a batch call of several chunks, the last one shorter, whose
\* first two texts differ, has succeeded
C14_Witness ==
  \E r \in Embedders :
    /\ req[r].kind = "batch"
    /\ req[r].pc = "done"
    /\ req[r].exc = "none"
    /\ Len(req[r].texts) > batch_size
    /\ Len(req[r].texts) % batch_size # 0
    /\ TruncateText(req[r].texts[1]) # TruncateText(req[r].texts[2])
    /\ Len(req[r].response.embeddings) = Len(req[r].texts)

\* C15: a batch call in which a chunk failed has left its loop with that
\* error: no further chunk can be submitted, and the call ends without
\* returning a vector, whatever it had collected.
C15_ChunkFailureAbortsBatch ==
  \A r \in Embedders :
    (req[r].kind = "batch" /\ req[r].failed_at = "encode") =>
      /\ req[r].exc # "none"
      /\ req[r].pc \in {"route", "done"}
      /\ ~ENABLED EncodeChunk(r)
      /\ req[r].pc = "done" =>
           /\ req[r].response.embeddings = << >>
           /\ req[r].response.status # 200

\* C15 witness: a batch call has failed on a later chunk, after a chunk had
\* been encoded, and returned nothing
C15_Witness ==
  \E r \in Embedders :
    /\ req[r].kind = "batch"
    /\ req[r].failed_at = "encode"
    /\ req[r].pc = "done"
    /\ Len(req[r].all_embeddings) >= 1
    /\ Len(req[r].all_embeddings) < Len(req[r].texts)
    /\ req[r].response.embeddings = << >>

\* C16: each text handed to encode is the input cut to its first
\* MAX_TEXT_LENGTH characters when it is longer and the input itself
\* otherwise, so no longer than MAX_TEXT_LENGTH; every vector is the vector
\* of such a text; the truncation itself never fails.
C16_TruncatedToMaxLength ==
  \A r \in Embedders :
    /\ req[r].pc = "encode" =>
         /\ req[r].exc = "none"
         /\ Len(req[r].processed_texts) = Len(req[r].texts)
    /\ \A j \in 1..Len(req[r].processed_texts) :
         /\ Len(req[r].processed_texts[j]) <= MAX_TEXT_LENGTH
         /\ req[r].processed_texts[j] =
              IF Len(req[r].texts[j]) > MAX_TEXT_LENGTH
              THEN SubSeq(req[r].texts[j], 1, MAX_TEXT_LENGTH)
              ELSE req[r].texts[j]
    /\ \A j \in 1..Len(req[r].all_embeddings) :
         /\ req[r].all_embeddings[j].of = req[r].processed_texts[j]
         /\ Len(req[r].all_embeddings[j].of) <= MAX_TEXT_LENGTH

\* C16 witness: a call has succeeded on a list holding a text longer than
\* MAX_TEXT_LENGTH and a text that is not
C16_Witness ==
  \E r \in Embedders :
    /\ req[r].pc = "done"
    /\ req[r].exc = "none"
    /\ \E j, k \in 1..Len(req[r].texts) :
         /\ Len(req[r].texts[j]) > MAX_TEXT_LENGTH
         /\ Len(req[r].texts[k]) <= MAX_TEXT_LENGTH
         /\ Len(req[r].response.embeddings[j].of) = MAX_TEXT_LENGTH
         /\ req[r].response.embeddings[k].of = req[r].texts[k]

\* the direct get_model calls
GetModelCalls == { r \in Requests : req[r].kind = "get_model" }

\* the entry of a non-empty dict that was constructed first
Oldest(d) ==
  d[CHOOSE i \in 1..Len(d) :
      \A j \in 1..Len(d) : d[i].handle.id <= d[j].handle.id]

\* C17: a get_model call answered from the cache leaves handles, order and
\* metadata as they were; the cache is always in insertion order; a load that
\* overflows the capacity removes the entry inserted first and keeps the
\* others; so with capacity 2, after load A, load B, hit A, load C the cache
\* is B, C.
C17_HitKeepsInsertionOrder ==
  /\ \A r \in GetModelCalls :
       (req[r].pc = "got" /\ req[r].loads0 = loads) =>
         /\ models = req[r].before
         /\ model_info = req[r].before_info
  /\ \A i, j \in 1..Len(models) :
       i < j => models[i].handle.id < models[j].handle.id
  /\ \A r \in GetModelCalls :
       (JustLoaded(r) /\ Len(req[r].before) >= 1
          /\ Len(req[r].before) + 1 > max_cache_size) =>
         /\ ~HasKey(models, Oldest(req[r].before).name)
         /\ \A i \in 1..Len(req[r].before) :
              req[r].before[i] # Oldest(req[r].before) =>
                \E k \in 1..Len(models) : models[k] = req[r].before[i]
  /\ (/\ max_cache_size = 2
      /\ clean
      /\ NoLoadInProgress
      /\ Len(history) = 3
      /\ last_hit = [name |-> history[1], at |-> 2]) =>
       Keys(models) = << history[2], history[3] >>

\* C17 witness: capacity 2; load A, load B, hit A, load C have been made and
\* the cache is B, C
C17_Witness ==
  /\ max_cache_size = 2
  /\ clean
  /\ NoLoadInProgress
  /\ Len(history) = 3
  /\ last_hit = [name |-> history[1], at |-> 2]
  /\ Keys(models) = << history[2], history[3] >>
  /\ history[1] \notin InfoNames

\* C18: unload_model of a name that is not cached returns False and changes
\* nothing; of a cached name it returns True and removes that name's handle
\* and metadata, the other entries staying as they were, in their order; the
\* next get_model of that name finds nothing in the cache and constructs the
\* model again.
C18_UnloadRemovesOnlyName ==
  /\ \A r \in Requests :
       (req[r].kind = "unload" /\ req[r].pc = "done") =>
         IF HasKey(req[r].before, req[r].loading)
         THEN /\ req[r].response.status = 1
              /\ ~HasKey(models, req[r].loading)
              /\ ~InfoHas(model_info, req[r].loading)
              /\ models = SelectSeq(req[r].before,
                                    LAMBDA e : e.name # req[r].loading)
              /\ model_info =
                   {e \in req[r].before_info : e.name # req[r].loading}
         ELSE /\ req[r].response.status = 0
              /\ models = req[r].before
              /\ model_info = req[r].before_info
  /\ \A r \in GetModelCalls :
       (req[r].after_unload /\ req[r].calls # << >>) =>
         /\ req[r].prev = NoHandle
         /\ ~HasKey(req[r].before, req[r].loading)
         /\ req[r].pc = "got" =>
              /\ loads = req[r].loads0 + 1
              /\ req[r].model.id = loads

\* C18 witness: a model unloaded from a cache of two has been loaded again by
\* the next get_model call, next to the entry that had stayed
C18_Witness ==
  \E r \in GetModelCalls :
    /\ req[r].after_unload
    /\ JustLoaded(r)
    /\ Len(req[r].before) >= 1
    /\ Len(models) = 2
    /\ models[1] = req[r].before[1]
    /\ models[2].name = req[r].loading

\* C19: a load that finds no gpu runs on cpu and leaves the cache's device
\* at cpu; the device never goes from cpu back to gpu; the handle and the
\* metadata of a model record the device at its load, and no model loaded on
\* gpu is newer than one loaded on cpu.
C19_DowngradeState ==
  /\ device = "cuda" => DEVICE = "cuda"
  /\ \A r \in Requests :
       /\ req[r].cuda_available = "no" =>
            /\ device = "cpu"
            /\ req[r].pc = "info" => req[r].model.device = "cpu"
       /\ JustLoaded(r) =>
            /\ req[r].model.device = device
            /\ InfoHas(model_info, req[r].loading) =>
                 InfoGet(model_info, req[r].loading).device = device
  /\ \A i, j \in 1..Len(models) :
       (models[i].handle.device = "cpu" /\ models[j].handle.device = "cuda")
         => models[j].handle.id < models[i].handle.id
  /\ \A i \in 1..Len(models) :
       (NoLoadInProgress /\ InfoHas(model_info, models[i].name)) =>
         InfoGet(model_info, models[i].name).device = models[i].handle.device

C19_DowngradeIsPermanent ==
  /\ []C19_DowngradeState
  /\ [][device = "cpu" => device' = "cpu"]_vars

\* C19 witness: configured for gpu, the device was downgraded by an earlier
\* load, and a later load (which no longer checks for a gpu) has stored cpu
\* metadata
C19_Witness ==
  \E r \in Requests :
    /\ DEVICE = "cuda"
    /\ device = "cpu"
    /\ JustLoaded(r)
    /\ req[r].cuda_available = "unchecked"
    /\ loads >= 2
    /\ InfoGet(model_info, req[r].loading).device = "cpu"

\* the handle is no longer in the cache
Evicted(h) == \A i \in 1..Len(models) : models[i].handle # h

\* a batch call between its first chunk and its return
InChunks(r) ==
  /\ r \in Embedders
  /\ req[r].kind = "batch"
  /\ req[r].pc = "encode"

\* C21: a batch call resolves its name and gets its handle (fallback
\* included) before its first chunk and never again: while it encodes its
\* chunks no model is constructed, no get_model call is made and its handle
\* and resolved name stay the same; every vector is produced by that handle,
\* and the name returned is the name of the model that produced them, whether
\* or not the cache still holds it.
C21_BatchState ==
  \A r \in Embedders :
    req[r].kind = "batch" =>
      /\ req[r].pc = "encode" =>
           /\ req[r].model # NoHandle
           /\ req[r].model.name = req[r].mapped_model_name
           /\ Len(req[r].calls) \in {1, 2}
      /\ \A j \in 1..Len(req[r].all_embeddings) :
           req[r].all_embeddings[j].by = req[r].model
      /\ (req[r].pc = "done" /\ req[r].response.status = 200) =>
           \A j \in 1..Len(req[r].response.embeddings) :
             /\ req[r].response.embeddings[j].by = req[r].model
             /\ req[r].response.embeddings[j].by.name = req[r].response.model

C21_BatchResolvesOnce ==
  /\ []C21_BatchState
  /\ [][ \A r \in Requests :
           InChunks(r) =>
             /\ loads' = loads
             /\ UNCHANGED << models, model_info, device, sys_modules >>
             /\ req'[r].calls = req[r].calls
             /\ req'[r].model = req[r].model
             /\ req'[r].mapped_model_name = req[r].mapped_model_name
             /\ req'[r].pc \in {"encode", "route"} ]_vars

\* C21 witness: a batch call of more than one chunk has answered 200 with
\* vectors of a model that was evicted during the call
C21_Witness ==
  \E r \in Embedders :
    /\ req[r].kind = "batch"
    /\ req[r].pc = "done"
    /\ req[r].response.status = 200
    /\ Len(req[r].response.embeddings) > batch_size
    /\ Evicted(req[r].model)
    /\ req[r].response.model = req[r].model.name

\* a call that holds a handle and has not returned
AfterHandle(r) ==
  /\ r \in Embedders
  /\ req[r].pc \in {"got", "encode", "route"}
  /\ req[r].model # NoHandle

\* C22: a call whose encode failed is on its way out with that error; from
\* the moment the handle was obtained the call makes no further get_model
\* call (no retry, no fallback), constructs nothing and leaves the cache as
\* it is; a failed encode is not followed by another encode.
C22_EncodeFailureState ==
  \A r \in Embedders :
    req[r].failed_at = "encode" =>
      /\ req[r].pc \in {"route", "done"}
      /\ req[r].exc # "none"
      /\ req[r].model # NoHandle
      /\ ~ENABLED Encode(r)
      /\ ~ENABLED GetModel(r)
      /\ req[r].pc = "done" => req[r].response.status # 200

C22_EncodeFailureIsFinal ==
  /\ []C22_EncodeFailureState
  /\ [][ \A r \in Requests :
           AfterHandle(r) =>
             /\ loads' = loads
             /\ UNCHANGED << models, model_info, device >>
             /\ req'[r].calls = req[r].calls
             /\ req'[r].pc \in {"got", "encode", "route", "done"} ]_vars

\* C22 witness: a single-text request has failed at its encode and its
\* model is still cached
C22_Witness ==
  \E r \in Embedders :
    /\ req[r].kind = "generate"
    /\ req[r].pc = "done"
    /\ req[r].failed_at = "encode"
    /\ req[r].response.status = 500
    /\ HasKey(models, req[r].model.name)
    /\ DictGet(models, req[r].model.name) = req[r].model

\* C27: when the get_model call of a health or readiness check has returned,
\* every model that was cached when it started is still cached, with the
\* handle and the metadata it had.
C27_HealthKeepsCache ==
  \A r \in Requests :
    (req[r].kind \in {"health", "ready"} /\ req[r].pc = "got") =>
      /\ \A i \in 1..Len(req[r].before) :
           /\ HasKey(models, req[r].before[i].name)
           /\ DictGet(models, req[r].before[i].name) =
                req[r].before[i].handle
      /\ \A e \in req[r].before_info : e \in model_info

\* C23: outside development, the response to an embedding or list-models
\* request that failed with an internal error (status 500 or 503) carries a
\* fixed message and not the text of the error.
C23_InternalErrorsMasked ==
  \A r \in Requests :
    (/\ ENVIRONMENT # "development"
     /\ req[r].kind \in {"generate", "batch", "models"}
     /\ req[r].pc = "done"
     /\ req[r].response.status \in {500, 503}) =>
      req[r].response.detail = "generic"

\* C28: the device a finished health, readiness or list-models request
\* reports is the device in the metadata of every loaded model.
C28_ReportedDeviceIsLoadedDevice ==
  \A r \in Requests :
    (/\ req[r].kind \in {"health", "ready", "models"}
     /\ req[r].pc = "done"
     /\ req[r].response.status = 200) =>
      \A e \in model_info : e.device = req[r].response.device

\* the finished direct calls of _map_model_name
Resolved == {r \in Requests : req[r].kind = "resolve" /\ req[r].pc = "done"}

\* a and b are the same name up to letter case
SameLetters(a, b) == Upper(a) = Upper(b)

\* name contains one of the patterns, in any letter case
HasPattern(name) ==
  \E p \in CanonicalPatterns : Contains(Upper(name), Upper(p))

IsTableKey(name) == \E e \in model_name_map : SameLetters(name, e[1])

\* C24: a name that is a key of the mapping table, in any letter case,
\* resolves to exactly the table's value for that key; it contains no
\* canonical pattern, so the lookup is reached.
C24_TableKeysResolved ==
  \A r \in Resolved :
    \A e \in model_name_map :
      SameLetters(req[r].model_name, e[1]) =>
        /\ req[r].mapped_model_name = e[2]
        /\ ~HasPattern(req[r].model_name)
        /\ req[r].lookups = 1

\* C24 witness: a table key written in upper case, and one with a single
\* upper-case letter, have been resolved to their table values
C24_Witness ==
  \E r \in Resolved :
    /\ req[r].model_name \in
         {Upper(TextEmbedding3Large), UpperAt(TextEmbeddingAda002, {6})}
    /\ req[r].model_name \notin {TextEmbedding3Large, TextEmbeddingAda002}
    /\ req[r].mapped_model_name \in {AllMpnetBaseV2, EMBEDDING_MODEL}

\* C25: a name that contains a canonical pattern, in any letter case,
\* resolves to itself, letter for letter, and the mapping table is not
\* looked up.
C25_PatternNamesUnchanged ==
  \A r \in Resolved :
    HasPattern(req[r].model_name) =>
      /\ req[r].mapped_model_name = req[r].model_name
      /\ req[r].lookups = 0

\* C25 witness: a name with a pattern in upper case has been resolved and
\* came back with its upper-case letters
C25_Witness ==
  \E r \in Resolved :
    /\ req[r].model_name = UpperAt(ParaphraseMiniLM, 1..10)
    /\ HasPattern(req[r].model_name)
    /\ req[r].mapped_model_name = req[r].model_name
    /\ req[r].mapped_model_name # Lower(req[r].model_name)

\* the embedding calls made with a name that is in no table and contains no
\* pattern
UnknownCalls ==
  {r \in Embedders : /\ req[r].model_name # << >>
                      /\ ~HasPattern(req[r].model_name)
                      /\ ~IsTableKey(req[r].model_name)}

C26_UnknownState ==
  /\ \A r \in Resolved :
       /\ req[r].exc = "none"
       /\ req[r].failed_at = "none"
       /\ (/\ req[r].model_name # << >>
           /\ ~HasPattern(req[r].model_name)
           /\ ~IsTableKey(req[r].model_name)) =>
            req[r].mapped_model_name = req[r].model_name
  /\ \A r \in UnknownCalls :
       /\ req[r].calls = << >> => req[r].exc = "none"
       /\ Len(req[r].calls) >= 1 => req[r].calls[1] = req[r].model_name
       /\ Len(req[r].calls) = 2 =>
            /\ req[r].outcomes[1] = "failed"
            /\ req[r].calls[2] = EMBEDDING_MODEL

\* C26: a non-empty name that is in no table and contains no pattern
\* resolves to itself without an error; an embedding call made with it
\* reaches the load under that name, and when that load fails the call goes
\* on with the default model.  A call of _map_model_name never raises and
\* leaves the cache as it was.
C26_UnknownPassesThrough ==
  /\ []C26_UnknownState
  /\ [][ \A r \in Requests :
           (req[r].pc = "idle" /\ req'[r].kind = "resolve") =>
             /\ req'[r].pc = "done"
             /\ req'[r].exc = "none"
             /\ UNCHANGED << models, model_info, device, loads >> ]_vars

\* C26 witness: with a model in the cache, an unknown name has been resolved
\* to itself
C26_Witness ==
  \E r \in Resolved :
    /\ req[r].model_name = UpperAt(LaBSE, {2})
    /\ req[r].mapped_model_name = req[r].model_name
    /\ models # << >>

====
